---- MODULE Spec2Model ----
(***************************************************************************)
(* The RAPI protocol engine of python-openevse (src/openevse.py, class     *)
(* SerialOpenEVSE): frame construction, the synchronous request path, the  *)
(* background monitor thread with its one-slot mailbox and its write gate, *)
(* reset, and the status drain.                                            *)
(*                                                                         *)
(* Threads: the foreground (the caller of the public methods), the monitor *)
(* (_thread_loop), the threading.Timer threads the monitor starts, and the *)
(* device at the other end of the serial line.  One action is one step of  *)
(* one thread; steps that touch no shared object are merged with the       *)
(* shared access that follows them.                                        *)
(***************************************************************************)
EXTENDS Integers, Sequences, FiniteSets, TLC

VARIABLES
    sync,               \* self.sync
    callback,           \* self.callback is not None
    new_status,         \* self.new_status ("None" or a label)
    timeout,            \* self.s.timeout, by name
    stop_thread,        \* self.stop_thread.is_set()
    newline_available,  \* self.newline_available.is_set()
    write_allowed,      \* self.write_allowed.is_set()
    newline,            \* self.newline (the mailbox slot)
    timers,             \* threading.Timer threads started and not yet fired
    mon,                \* the monitor thread: position and locals
    fg,                 \* the foreground thread: position and locals
    ret,                \* what the last foreground call returned or raised
    rx,                 \* lines the device sent that nobody has read yet
    tx,                 \* the serial output: the last frame written
    cb,                 \* the callback: the label of its last call
    hist,               \* history of the run (read by the properties only)
    args,               \* frame codec: the arguments of _silent_request
    frame               \* frame codec: the bytes it hands to s.write

vars == <<sync, callback, new_status, timeout, stop_thread, newline_available,
          write_allowed, newline, timers, mon, fg, ret, rx, tx, cb, hist,
          args, frame>>

engine == <<sync, callback, new_status, timeout, stop_thread,
            newline_available, write_allowed, newline, timers, mon, fg, ret,
            rx, tx, cb, hist>>

(***************************************************************************)
(* Bounds of the model.                                                    *)
(***************************************************************************)
MaxRx == 1            \* lines the serial input buffer holds
MaxTimers == 1        \* Timer threads pending at one time
RecursionLimit == 3   \* nested _get_response calls the interpreter allows
MaxArgs == 2          \* arguments after the mnemonic (frame codec)

(***************************************************************************)
(* Program constants.  Times are in tenths of a second.                    *)
(***************************************************************************)
SYNC_SERIAL_TIMEOUT == 5
NEWLINE_MAX_AGE == 50
CORRECT_RESPONSE_PREFIXES == {"$OK", "$NK"}

ChDollar == 36
ChSpace == 32
ChCaret == 94
ChCR == 13

\* states: the status table, code -> label
states ==
    [c \in (0..10) \cup {254, 255} |->
        CASE c = 0 -> "unknown"
          [] c = 1 -> "not connected"
          [] c = 2 -> "connected"
          [] c = 3 -> "charging"
          [] c = 4 -> "vent required"
          [] c = 5 -> "diode check failed"
          [] c = 6 -> "gfci fault"
          [] c = 7 -> "no ground"
          [] c = 8 -> "stuck relay"
          [] c = 9 -> "gfci self-test failure"
          [] c = 10 -> "over temperature"
          [] c = 254 -> "sleeping"
          [] c = 255 -> "disabled"]

(***************************************************************************)
(* Frame codec: _silent_request, lines 737-742.  A string is the sequence  *)
(* of its byte values.                                                     *)
(***************************************************************************)
RECURSIVE Xor(_, _)
\* a ^ b on non-negative integers
Xor(a, b) ==
    IF a = 0 THEN b
    ELSE IF b = 0 THEN a
    ELSE (((a % 2) + (b % 2)) % 2) + 2 * Xor(a \div 2, b \div 2)

RECURSIVE Join(_)
\* ' '.join(args)
Join(as) ==
    IF as = <<>> THEN <<>>
    ELSE IF Len(as) = 1 THEN as[1]
    ELSE as[1] \o <<ChSpace>> \o Join(Tail(as))

\* command = '$' + ' '.join(args)
Command(as) == <<ChDollar>> \o Join(as)

RECURSIVE ChecksumFrom(_, _)
\* for i in bytearray(command): checksum ^= i
ChecksumFrom(acc, bytes) ==
    IF bytes = <<>> THEN acc
    ELSE ChecksumFrom(Xor(acc, Head(bytes)), Tail(bytes))

ChecksumSkipFirst(bytes) == ChecksumFrom(0, Tail(bytes))

\* checksum = 0; for i in bytearray(command): checksum ^= i
Checksum(bytes) == ChecksumFrom(0, bytes)

\* one digit of format(.., 'X')
HexDigit(d) == IF d < 10 THEN 48 + d ELSE 55 + d

RECURSIVE HexDigits(_)
\* format(n, 'X'): no padding
HexDigits(n) ==
    IF n < 16 THEN <<HexDigit(n)>>
    ELSE HexDigits(n \div 16) \o <<HexDigit(n % 16)>>

\* format(n, '02X'): padded with '0' to two digits at least
Format02X(n) ==
    IF Len(HexDigits(n)) < 2 THEN <<48>> \o HexDigits(n) ELSE HexDigits(n)

\* request = command + '^' + checksum + '\r'
Request(as) ==
    Command(as) \o <<ChCaret>> \o Format02X(Checksum(Command(as))) \o <<ChCR>>

(***************************************************************************)
(* Lines.  A line is its whitespace-separated tokens (tok, then args).     *)
(* fresh is history, kept for status lines the device sends while the      *)
(* monitor runs: no reset frame has been written since the line was sent.  *)
(* The tokens of the model have three characters at most, so that          *)
(* line[:3] and line[:2] are read off them.                                *)
(***************************************************************************)
Line(tok, as) == [tok |-> tok, args |-> as, fresh |-> FALSE]

\* line.split()
Split(l) == IF l.tok = "" THEN <<>> ELSE <<l.tok>> \o l.args

\* line[:3]
First3(l) ==
    CASE l.tok = "" -> "<CR>"
      [] l.tok = "ST" -> IF l.args = <<>> THEN "ST<CR>" ELSE "ST "
      [] OTHER -> l.tok

\* line[:2]
First2(l) ==
    CASE l.tok = "" -> "<CR>"
      [] l.tok = "ST" -> "ST"
      [] l.tok = "$ST" -> "$S"
      [] l.tok = "$OK" -> "$O"
      [] l.tok = "$NK" -> "$N"
      [] OTHER -> "??"

\* int(s, 16) of the two-digit codes the device of the model sends
Int16(s) ==
    CASE s = "00" -> 0
      [] s = "02" -> 2
      [] s = "03" -> 3
      [] s = "0b" -> 11
      [] s = "ff" -> 255

\* states[int(line.split()[1], 16)]: the label, or the exception raised
StatusLabel(l) ==
    IF Len(Split(l)) < 2 THEN [exc |-> "IndexError"]
    ELSE IF Int16(Split(l)[2]) \notin DOMAIN states THEN [exc |-> "KeyError"]
    ELSE [label |-> states[Int16(Split(l)[2])]]

Raises(r) == "exc" \in DOMAIN r

\* response[:3] in CORRECT_RESPONSE_PREFIXES (line 724)
IsReplyPrefix(l) == First3(l) \in CORRECT_RESPONSE_PREFIXES

\* response[:3] == '$ST' (line 728)
IsSyncStatus(l) == First3(l) = "$ST"

\* line[:3] in ('ST ', '$ST') (line 658)
IsMonitorStatus(l) == First3(l) \in {"ST ", "$ST"}

\* line[:2] == 'ST' (line 766)
IsResetStatus(l) == First2(l) = "ST"

ReplyKeepsToken(l) ==
    IF Split(l) = <<>> THEN [exc |-> "IndexError"]
    ELSE [ok |-> Split(l)[1] = "$OK", data |-> Split(l)]

\* (response[0] == '$OK', response[1:]); response[0] raises on no token
Reply(l) ==
    IF Split(l) = <<>> THEN [exc |-> "IndexError"]
    ELSE [ok |-> Split(l)[1] = "$OK", data |-> Tail(Split(l))]

\* int(s) of the one-digit codes of the model
Int10(s) ==
    CASE s = "0" -> 0
      [] s = "3" -> 3

\* status() without an action, on the reply r of _request('GS'):
\* if done: return states[int(data[0])]; raise EvseError
status(r) ==
    IF r.ok THEN [label |-> states[Int10(r.data[1])]]
    ELSE [exc |-> "EvseError"]

\* What the device of the model sends.
ReplyLines == {Line("$OK", <<"0">>), Line("$NK", <<>>)}
StatusLines == {Line("$ST", <<"02">>), Line("$ST", <<"ff">>),
                Line("ST", <<"03">>), Line("$ST", <<"0b">>),
                Line("ST", <<"0b">>)}
OtherLines == {Line("foo", <<>>)}
DeviceLines == ReplyLines \cup StatusLines \cup OtherLines
EngineLines == ReplyLines \cup {Line("$ST", <<"02">>)}

\* a status line, whatever the reading path makes of it
IsStatusLine(l) == l.tok \in {"$ST", "ST"}

NoLine == [tok |-> "None", args |-> <<>>, fresh |-> FALSE]
NoRet == [k |-> "none"]
Returned == [k |-> "return"]
Raised(exc) == [k |-> "raise", exc |-> exc]

(***************************************************************************)
(* A mailbox entry is a line with its history: stale says that a frame was *)
(* written after the monitor read the line from the port.                  *)
(***************************************************************************)
NoEntry == [line |-> NoLine, stale |-> FALSE]

Stale(entry) == IF entry = NoEntry THEN entry ELSE [entry EXCEPT !.stale = TRUE]

MonIdle == [pc |-> "none", entry |-> NoEntry, age |-> 0]
\* blocked is history: the write gate was closed when the call was made
\* writes counts the frames the call has written
FgIdle == [pc |-> "idle", op |-> "none", depth |-> 0, resp |-> NoEntry,
           nst |-> 0, blocked |-> FALSE, writes |-> 0]

\* the monitor thread has been started and has not ended
MonAlive == mon.pc \notin {"none", "exited", "dead"}

(***************************************************************************)
(* The state after __init__ (lines 633-642): no monitor, the standard      *)
(* timeout, nothing read or written yet.  The three events exist from the  *)
(* first run_sync on.                                                      *)
(***************************************************************************)
InitEngine ==
    /\ sync = FALSE
    /\ callback \in BOOLEAN
    /\ new_status = "None"
    /\ timeout = "STANDARD"
    /\ stop_thread = FALSE
    /\ newline_available = FALSE
    /\ write_allowed = FALSE
    /\ newline = NoEntry
    /\ timers = 0
    /\ mon = MonIdle
    /\ fg = FgIdle
    /\ ret = NoRet
    /\ rx = <<>>
    /\ tx = "none"
    /\ cb = "None"
    /\ hist = [seen |-> "no", overwrote |-> FALSE, pub |-> NoLine,
               fgReadWhileMon |-> FALSE, last |-> "None", waits |-> 0]

Init ==
    /\ InitEngine
    /\ args = <<>>
    /\ frame = <<>>

(***************************************************************************)
(* The device: it sends a line whenever it likes.                          *)
(***************************************************************************)
DeviceSends(l) ==
    /\ Len(rx) < MaxRx
    /\ rx' = Append(rx, IF IsStatusLine(l) THEN [l EXCEPT !.fresh = sync]
                        ELSE l)
    /\ UNCHANGED <<sync, callback, new_status, timeout, stop_thread,
                   newline_available, write_allowed, newline, timers, mon, fg,
                   ret, tx, cb, hist, args, frame>>

(***************************************************************************)
(* The foreground: how a call ends.                                        *)
(***************************************************************************)
\* the call returns v to its caller
FgReturns(v) ==
    /\ fg' = FgIdle
    /\ ret' = v

\* exc propagates to the caller of the public method
FgRaises(exc) == FgReturns(Raised(exc))

\* self.callback(label)
Called(label) == label

\* if self.callback: self.callback(label)
CalledIfSet(label) == IF callback THEN Called(label) ELSE cb

(***************************************************************************)
(* _silent_request, lines 743-745: wait for the gate when the monitor      *)
(* runs, then write the frame.                                             *)
(***************************************************************************)
MayWriteAlways == TRUE

\* if self.sync: self.write_allowed.wait()
MayWrite == ~sync \/ write_allowed

\* _request(cmd), entered
CallRequest ==
    /\ fg.pc = "idle"
    /\ fg' = [FgIdle EXCEPT !.pc = "write", !.op = "request",
                            !.blocked = sync /\ ~write_allowed]
    /\ ret' = NoRet
    /\ UNCHANGED <<sync, callback, new_status, timeout, stop_thread,
                   newline_available, write_allowed, newline, timers, mon, rx,
                   tx, cb, hist, args, frame>>

\* reset(), entered
CallReset ==
    /\ fg.pc = "idle"
    /\ fg' = [FgIdle EXCEPT !.pc = "write", !.op = "reset",
                            !.blocked = sync /\ ~write_allowed]
    /\ ret' = NoRet
    /\ UNCHANGED <<sync, callback, new_status, timeout, stop_thread,
                   newline_available, write_allowed, newline, timers, mon, rx,
                   tx, cb, hist, args, frame>>

RECURSIVE Unfresh(_)
\* history: a reset frame is written, the lines sent before it are not fresh
Unfresh(s) ==
    IF s = <<>> THEN <<>>
    ELSE <<[Head(s) EXCEPT !.fresh = FALSE]>> \o Unfresh(Tail(s))

\* self.s.write(request): 'GS' for a request, 'FR' for reset (line 195)
FgWrite ==
    /\ fg.pc = "write"
    /\ MayWrite
    /\ tx' = IF fg.op = "reset" THEN "FR" ELSE "GS"
    /\ fg' = [fg EXCEPT !.pc = IF fg.op = "reset" THEN "reinit" ELSE "resp",
                        !.depth = 1, !.writes = @ + 1]
    /\ newline' = Stale(newline)
    /\ mon' = [mon EXCEPT !.entry = Stale(@)]
    /\ rx' = IF fg.op = "reset" THEN Unfresh(rx) ELSE rx
    /\ hist' = IF fg.op = "reset" THEN [hist EXCEPT !.seen = "no"] ELSE hist
    /\ UNCHANGED <<sync, callback, new_status, timeout, stop_thread,
                   newline_available, write_allowed, timers, ret, cb, args,
                   frame>>

(***************************************************************************)
(* _get_response without the monitor, lines 722-733: read a line, return   *)
(* it when it is a reply, else handle it and call _get_response again.     *)
(***************************************************************************)
\* _get_response has returned the reply of line l: _request returns it
\* (line 750), the loop of get_status_change calls _get_response again
\* (lines 793-794)
GetResponseReturns(l) ==
    IF fg.op = "drain"
    THEN /\ fg' = [fg EXCEPT !.depth = 1, !.nst = 0]
         /\ ret' = ret
    ELSE FgReturns([k |-> "reply", ok |-> Reply(l).ok, data |-> Reply(l).data,
                    line |-> l, via |-> "port", nst |-> fg.nst])

\* return self._get_response() (line 733), one frame deeper; past the
\* interpreter's limit the call raises RuntimeError
Recurse(nst) ==
    IF fg.depth >= RecursionLimit
    THEN FgRaises("RuntimeError")
    ELSE /\ fg' = [fg EXCEPT !.depth = @ + 1, !.nst = nst]
         /\ ret' = ret

\* self._read_line() by the foreground: history notes a monitor alive
FgReadsPort == [hist EXCEPT !.fgReadWhileMon = @ \/ MonAlive]

\* history: the label of the last status line ($ST or bare ST, its code in
\* the table) the foreground has read since get_status_change last returned
\* (or since the monitor was last started: it reads the status lines then)
LastAfter(l) ==
    IF IsStatusLine(l) /\ ~Raises(StatusLabel(l)) THEN StatusLabel(l).label
    ELSE hist.last

\* the foreground reads line l from the port
FgReadsLine(l) == [FgReadsPort EXCEPT !.last = LastAfter(l)]

FgReadLine ==
    /\ fg.pc = "resp"
    /\ ~sync
    /\ rx # <<>>
    /\ rx' = Tail(rx)
    /\ hist' = FgReadsLine(Head(rx))
    /\ LET l == Head(rx)
           st == StatusLabel(l)
       IN  CASE IsReplyPrefix(l) ->
                  /\ GetResponseReturns(l)
                  /\ UNCHANGED <<new_status, cb>>
             [] ~IsReplyPrefix(l) /\ IsSyncStatus(l) /\ Raises(st) ->
                  /\ FgRaises(st.exc)
                  /\ UNCHANGED <<new_status, cb>>
             [] ~IsReplyPrefix(l) /\ IsSyncStatus(l) /\ ~Raises(st) ->
                  /\ cb' = CalledIfSet(st.label)
                  /\ new_status' = st.label
                  /\ Recurse(fg.nst + 1)
             [] OTHER ->
                  /\ Recurse(fg.nst)
                  /\ UNCHANGED <<new_status, cb>>
    /\ UNCHANGED <<sync, callback, timeout, stop_thread, newline_available,
                   write_allowed, newline, timers, mon, tx, args, frame>>

\* _read_line raises EvseTimeoutError (line 709): it ends a request, and it
\* ends the loop of get_status_change normally (lines 795-802)
FgReadTimeout ==
    /\ fg.pc = "resp"
    /\ ~sync
    /\ rx = <<>>
    /\ hist' = IF fg.op = "drain" THEN [FgReadsPort EXCEPT !.last = "None"]
               ELSE FgReadsPort
    /\ IF fg.op = "drain"
       THEN /\ timeout' = "STANDARD"
            /\ FgReturns([k |-> "status", v |-> new_status])
            /\ new_status' = "None"
       ELSE /\ FgRaises("EvseTimeoutError")
            /\ UNCHANGED <<timeout, new_status>>
    /\ UNCHANGED <<sync, callback, stop_thread, newline_available,
                   write_allowed, newline, timers, mon, rx, tx, cb, args,
                   frame>>

(***************************************************************************)
(* _get_response with the monitor, lines 717-721.  wait() and the read of  *)
(* self.newline are one step (only the foreground clears the flag); the    *)
(* clear is a step of its own.                                             *)
(***************************************************************************)
FgTakeRead ==
    /\ fg.pc = "resp"
    /\ sync
    /\ newline_available
    /\ fg' = [fg EXCEPT !.pc = "clear", !.resp = newline]
    /\ UNCHANGED <<sync, callback, new_status, timeout, stop_thread,
                   newline_available, write_allowed, newline, timers, mon, ret,
                   rx, tx, cb, hist, args, frame>>

FgTakeClear ==
    /\ fg.pc = "clear"
    /\ newline_available' = FALSE
    /\ FgReturns(IF Raises(Reply(fg.resp.line))
                 THEN Raised(Reply(fg.resp.line).exc)
                 ELSE [k |-> "reply", ok |-> Reply(fg.resp.line).ok,
                       data |-> Reply(fg.resp.line).data,
                       line |-> fg.resp.line, via |-> "mailbox", nst |-> 0])
    /\ hist' = [hist EXCEPT !.overwrote = FALSE]
    /\ UNCHANGED <<sync, callback, new_status, timeout, stop_thread,
                   write_allowed, newline, timers, mon, rx, tx, cb, args,
                   frame>>

(***************************************************************************)
(* reset, lines 195-197, after the frame is written: _reinitialize (lines  *)
(* 758-772), then time.sleep(1).                                           *)
(***************************************************************************)
\* if self.sync: self.write_allowed.clear()
FgReinitGate ==
    /\ fg.pc = "reinit"
    /\ sync
    /\ write_allowed' = FALSE
    /\ FgReturns(Returned)
    /\ UNCHANGED <<sync, callback, new_status, timeout, stop_thread,
                   newline_available, newline, timers, mon, rx, tx, cb, hist,
                   args, frame>>

\* else: the next line under RESET_SERIAL_TIMEOUT; the standard timeout is
\* set again once the line is read (line 765)
FgReinitRead ==
    /\ fg.pc = "reinit"
    /\ ~sync
    /\ rx # <<>>
    /\ rx' = Tail(rx)
    /\ hist' = FgReadsLine(Head(rx))
    /\ timeout' = "STANDARD"
    /\ LET l == Head(rx)
           st == StatusLabel(l)
       IN  CASE ~IsResetStatus(l) ->
                  /\ FgRaises("EvseError")
                  /\ UNCHANGED <<new_status, cb>>
             [] IsResetStatus(l) /\ Raises(st) ->
                  /\ FgRaises(st.exc)
                  /\ UNCHANGED <<new_status, cb>>
             [] OTHER ->
                  /\ cb' = CalledIfSet(st.label)
                  /\ new_status' = st.label
                  /\ FgReturns(Returned)
    /\ UNCHANGED <<sync, callback, stop_thread, newline_available,
                   write_allowed, newline, timers, mon, tx, args, frame>>

\* _read_line raises EvseTimeoutError after line 762 and before line 765
FgReinitTimeout ==
    /\ fg.pc = "reinit"
    /\ ~sync
    /\ rx = <<>>
    /\ hist' = FgReadsPort
    /\ timeout' = "RESET"
    /\ FgRaises("EvseTimeoutError")
    /\ UNCHANGED <<sync, callback, new_status, stop_thread, newline_available,
                   write_allowed, newline, timers, mon, rx, tx, cb, args,
                   frame>>

(***************************************************************************)
(* get_status_change, lines 787-802; its loop is FgReadLine and            *)
(* FgReadTimeout with fg.op = "drain".                                     *)
(***************************************************************************)
DrainRefusedNever == FALSE

\* if self.sync: raise EvseError
DrainRefused == sync

CallGetStatusChange ==
    /\ fg.pc = "idle"
    /\ IF DrainRefused
       THEN /\ FgRaises("EvseError")
            /\ UNCHANGED timeout
       ELSE /\ fg' = [FgIdle EXCEPT !.pc = "resp", !.op = "drain", !.depth = 1]
            /\ ret' = NoRet
            /\ timeout' = "STATUS"
    /\ UNCHANGED <<sync, callback, new_status, stop_thread, newline_available,
                   write_allowed, newline, timers, mon, rx, tx, cb, hist,
                   args, frame>>

(***************************************************************************)
(* run_sync, lines 681-689.  The three events are new objects: a Timer     *)
(* still pending holds the set method of the old write_allowed, and is     *)
(* dropped here.  self.newline is not touched.                             *)
(***************************************************************************)
StartsMonitorWithCallback == callback

\* if self.callback and not self.sync
StartsMonitor == callback /\ ~sync

\* run_sync returns nothing; started is history: it has started a thread
ReturnedFromRunSync(started) ==
    [k |-> "return", op |-> "run_sync", started |-> started]

RunSync ==
    /\ fg.pc = "idle"
    /\ ret' = ReturnedFromRunSync(StartsMonitor)
    /\ IF StartsMonitor
       THEN /\ sync' = TRUE
            /\ timeout' = "SYNC"
            /\ stop_thread' = FALSE
            /\ newline_available' = FALSE
            /\ write_allowed' = TRUE
            /\ timers' = 0
            /\ mon' = [MonIdle EXCEPT !.pc = "loop"]
            /\ hist' = [hist EXCEPT !.seen = "no", !.overwrote = FALSE,
                                    !.waits = 0, !.last = "None"]
       ELSE UNCHANGED <<sync, timeout, stop_thread, newline_available,
                        write_allowed, timers, mon, hist>>
    /\ UNCHANGED <<callback, new_status, newline, fg, rx, tx, cb, args, frame>>

(***************************************************************************)
(* stop_sync, lines 693-697.                                               *)
(***************************************************************************)
\* if self.sync: self.stop_thread.set()
StopSync ==
    /\ fg.pc = "idle"
    /\ ret' = IF sync THEN NoRet ELSE Returned
    /\ fg' = IF sync THEN [FgIdle EXCEPT !.op = "stop_sync", !.pc = "join"]
             ELSE FgIdle
    /\ stop_thread' = (sync \/ stop_thread)
    /\ UNCHANGED <<sync, callback, new_status, timeout, newline_available,
                   write_allowed, newline, timers, mon, rx, tx, cb, hist,
                   args, frame>>

JoinReturnsAtOnce == TRUE

\* self.sync_thread.join() returns
JoinReturns == ~MonAlive

\* self.sync = False; self.s.timeout = STANDARD_SERIAL_TIMEOUT
FgJoin ==
    /\ fg.pc = "join"
    /\ JoinReturns
    /\ sync' = FALSE
    /\ timeout' = "STANDARD"
    /\ FgReturns(Returned)
    /\ UNCHANGED <<callback, new_status, stop_thread, newline_available,
                   write_allowed, newline, timers, mon, rx, tx, cb, hist,
                   args, frame>>

(***************************************************************************)
(* _thread_loop, lines 651-675.                                            *)
(***************************************************************************)
\* while not self.stop_thread.is_set()
MonLoop ==
    /\ mon.pc = "loop"
    /\ mon' = [mon EXCEPT !.pc = IF stop_thread THEN "exited" ELSE "read"]
    /\ UNCHANGED <<sync, callback, new_status, timeout, stop_thread,
                   newline_available, write_allowed, newline, timers, fg, ret,
                   rx, tx, cb, hist, args, frame>>

\* except EvseTimeoutError: continue
MonReadTimeout ==
    /\ mon.pc = "read"
    /\ rx = <<>>
    /\ mon' = [mon EXCEPT !.pc = "loop"]
    /\ UNCHANGED <<sync, callback, new_status, timeout, stop_thread,
                   newline_available, write_allowed, newline, timers, fg, ret,
                   rx, tx, cb, hist, args, frame>>

\* history: whether the monitor has read a status line sent after the last
\* reset frame, and whether the gate was open ("missed") or closed then
Seen(l) ==
    CASE ~l.fresh -> hist.seen
      [] l.fresh /\ ~write_allowed -> "closed"
      [] l.fresh /\ write_allowed ->
            IF hist.seen = "no" THEN "missed" ELSE hist.seen

\* if not self.write_allowed.is_set(): threading.Timer(1, ...).start()
TimersAfterStatus == IF write_allowed THEN timers ELSE timers + 1

\* a status line (lines 658-665): the callback, then the gate test.  The
\* exception of an unknown or missing code ends the thread.
MonReadStatus ==
    /\ mon.pc = "read"
    /\ rx # <<>>
    /\ IsMonitorStatus(Head(rx))
    /\ rx' = Tail(rx)
    /\ LET l == Head(rx)
           st == StatusLabel(l)
       IN  IF Raises(st)
           THEN /\ mon' = [mon EXCEPT !.pc = "dead"]
                /\ UNCHANGED <<cb, timers, hist>>
           ELSE /\ TimersAfterStatus <= MaxTimers
                /\ mon' = [mon EXCEPT !.pc = "loop"]
                /\ cb' = Called(st.label)
                /\ timers' = TimersAfterStatus
                /\ hist' = [hist EXCEPT !.seen = Seen(l)]
    /\ UNCHANGED <<sync, callback, new_status, timeout, stop_thread,
                   newline_available, write_allowed, newline, fg, ret, tx,
                   args, frame>>

\* any other line is one to publish (line 668)
MonReadOther ==
    /\ mon.pc = "read"
    /\ rx # <<>>
    /\ ~IsMonitorStatus(Head(rx))
    /\ rx' = Tail(rx)
    /\ mon' = [pc |-> "wait", age |-> 0,
               entry |-> [line |-> Head(rx), stale |-> FALSE]]
    /\ UNCHANGED <<sync, callback, new_status, timeout, stop_thread,
                   newline_available, write_allowed, newline, timers, fg, ret,
                   tx, cb, hist, args, frame>>

KeepWaitingNever(age) == FALSE

\* while (self.newline_available.is_set() and
\*        previous_newline_age <= NEWLINE_MAX_AGE)
KeepWaiting(age) == newline_available /\ age <= NEWLINE_MAX_AGE

\* history: the sleeps of the wait loop since the stop flag was set (0, 1,
\* or 2 for more than one)
SleepsSinceStop ==
    IF ~stop_thread THEN 0 ELSE IF hist.waits >= 1 THEN 2 ELSE 1

\* time.sleep(SYNC_SERIAL_TIMEOUT); previous_newline_age += ...
MonWait ==
    /\ mon.pc = "wait"
    /\ KeepWaiting(mon.age)
    /\ mon' = [mon EXCEPT !.age = @ + SYNC_SERIAL_TIMEOUT]
    /\ hist' = [hist EXCEPT !.waits = SleepsSinceStop]
    /\ UNCHANGED <<sync, callback, new_status, timeout, stop_thread,
                   newline_available, write_allowed, newline, timers, fg, ret,
                   rx, tx, cb, args, frame>>

KeepsUnreadLine(entry) == IF newline_available THEN newline ELSE entry

\* self.newline = line: the new value of the slot
Published(entry) == entry

MonStore ==
    /\ mon.pc = "wait"
    /\ ~KeepWaiting(mon.age)
    /\ newline' = Published(mon.entry)
    /\ mon' = [pc |-> "set", entry |-> NoEntry, age |-> 0]
    /\ hist' = [hist EXCEPT
                  !.pub = mon.entry.line,
                  !.overwrote = newline_available /\ fg.pc # "clear",
                  !.waits = 0]
    /\ UNCHANGED <<sync, callback, new_status, timeout, stop_thread,
                   newline_available, write_allowed, timers, fg, ret, rx, tx,
                   cb, args, frame>>

\* self.newline_available.set()
MonSet ==
    /\ mon.pc = "set"
    /\ newline_available' = TRUE
    /\ mon' = [mon EXCEPT !.pc = "loop"]
    /\ UNCHANGED <<sync, callback, new_status, timeout, stop_thread,
                   write_allowed, newline, timers, fg, ret, rx, tx, cb, hist,
                   args, frame>>

\* a Timer thread runs self.write_allowed.set (line 664)
TimerFires ==
    /\ timers > 0
    /\ timers' = timers - 1
    /\ write_allowed' = TRUE
    /\ UNCHANGED <<sync, callback, new_status, timeout, stop_thread,
                   newline_available, newline, mon, fg, ret, rx, tx, cb, hist,
                   args, frame>>

Foreground ==
    \/ CallRequest
    \/ CallReset
    \/ CallGetStatusChange
    \/ RunSync
    \/ StopSync
    \/ FgWrite
    \/ FgReadLine
    \/ FgReadTimeout
    \/ FgTakeRead
    \/ FgTakeClear
    \/ FgReinitGate
    \/ FgReinitRead
    \/ FgReinitTimeout
    \/ FgJoin

Monitor ==
    \/ MonLoop
    \/ MonReadTimeout
    \/ MonReadStatus
    \/ MonReadOther
    \/ MonWait
    \/ MonStore
    \/ MonSet

\* the device of the full engine sends replies and a status line
Device == \E l \in EngineLines : DeviceSends(l)

\* the device of the engine without a monitor sends every line
DeviceSync == \E l \in DeviceLines : DeviceSends(l)

Next ==
    \/ Foreground
    \/ Monitor
    \/ TimerFires
    \/ Device

Spec == Init /\ [][Next]_vars

(***************************************************************************)
(* The engine without a monitor (run_sync is never called).                *)
(***************************************************************************)
NextSync ==
    \/ CallRequest
    \/ CallReset
    \/ CallGetStatusChange
    \/ FgWrite
    \/ FgReadLine
    \/ FgReadTimeout
    \/ FgReinitRead
    \/ FgReinitTimeout
    \/ DeviceSync

SpecSync == Init /\ [][NextSync]_vars

(***************************************************************************)
(* The frame codec alone: every argument list of the bounded sets is       *)
(* encoded.                                                                *)
(***************************************************************************)
MnemonicBytes == {70, 71, 83, 69, 66}
ArgStrings == {<<48>>, <<49>>, <<49, 54>>, <<65>>}

SeqsUpTo(S, n) == UNION {[1..k -> S] : k \in 0..n}

Mnemonics == [1..2 -> MnemonicBytes]
ArgLists == {<<m>> \o as : m \in Mnemonics, as \in SeqsUpTo(ArgStrings, MaxArgs)}

InitCodec ==
    /\ InitEngine
    /\ callback = FALSE
    /\ args \in ArgLists
    /\ frame = <<>>

\* _silent_request(*args) builds the frame it writes
Encode ==
    /\ frame = <<>>
    /\ frame' = Request(args)
    /\ UNCHANGED <<engine, args>>

\* the next call
NextCall ==
    /\ frame # <<>>
    /\ args' \in ArgLists
    /\ frame' = <<>>
    /\ UNCHANGED engine

NextCodec == Encode \/ NextCall

SpecCodec == InitCodec /\ [][NextCodec]_vars

(***************************************************************************)
(* __init__, lines 638-642: the constructor ends with                      *)
(*     try: self.echo(False)                                               *)
(*     except EvseError: self.echo(False)                                  *)
(* where echo is _request('SE', '0') and raises EvseError on a reply that  *)
(* is not ok (lines 368-369).  fg.writes tells the first echo from the     *)
(* second.  When the constructor raises there is no object to call.        *)
(***************************************************************************)
InitOpen ==
    /\ sync = FALSE
    /\ callback \in BOOLEAN
    /\ new_status = "None"
    /\ timeout = "STANDARD"
    /\ stop_thread = FALSE
    /\ newline_available = FALSE
    /\ write_allowed = FALSE
    /\ newline = NoEntry
    /\ timers = 0
    /\ mon = MonIdle
    /\ fg = [FgIdle EXCEPT !.pc = "echo_write", !.op = "open"]
    /\ ret = NoRet
    /\ rx = <<>>
    /\ tx = "none"
    /\ cb = "None"
    /\ hist = [seen |-> "no", overwrote |-> FALSE, pub |-> NoLine,
               fgReadWhileMon |-> FALSE, last |-> "None", waits |-> 0]
    /\ args = <<>>
    /\ frame = <<>>

\* an exception leaves __init__
OpenRaises(exc) ==
    /\ fg' = [FgIdle EXCEPT !.pc = "failed"]
    /\ ret' = Raised(exc)

\* an exception leaves echo(False): the first time an EvseError is caught
\* and echo(False) is called again
EchoRaises(exc) ==
    IF fg.writes = 1 /\ exc \in {"EvseError", "EvseTimeoutError"}
    THEN /\ fg' = [fg EXCEPT !.pc = "echo_write", !.depth = 0]
         /\ ret' = ret
    ELSE OpenRaises(exc)

\* self.s.write(request) of _request('SE', '0')
OpenWrite ==
    /\ fg.pc = "echo_write"
    /\ tx' = "SE"
    /\ fg' = [fg EXCEPT !.pc = "echo_resp", !.depth = 1, !.writes = @ + 1]
    /\ UNCHANGED <<sync, callback, new_status, timeout, stop_thread,
                   newline_available, write_allowed, newline, timers, mon,
                   ret, rx, cb, hist, args, frame>>

\* return self._get_response() (line 733) within echo
OpenRecurse ==
    IF fg.depth >= RecursionLimit
    THEN OpenRaises("RuntimeError")
    ELSE /\ fg' = [fg EXCEPT !.depth = @ + 1]
         /\ ret' = ret

\* _get_response within echo reads a line (lines 723-733, 368-369)
OpenReadLine ==
    /\ fg.pc = "echo_resp"
    /\ rx # <<>>
    /\ rx' = Tail(rx)
    /\ hist' = FgReadsLine(Head(rx))
    /\ LET l == Head(rx)
           st == StatusLabel(l)
       IN  CASE IsReplyPrefix(l) ->
                  /\ IF Reply(l).ok THEN FgReturns(Returned)
                     ELSE EchoRaises("EvseError")
                  /\ UNCHANGED <<new_status, cb>>
             [] ~IsReplyPrefix(l) /\ IsSyncStatus(l) /\ Raises(st) ->
                  /\ OpenRaises(st.exc)
                  /\ UNCHANGED <<new_status, cb>>
             [] ~IsReplyPrefix(l) /\ IsSyncStatus(l) /\ ~Raises(st) ->
                  /\ cb' = CalledIfSet(st.label)
                  /\ new_status' = st.label
                  /\ OpenRecurse
             [] OTHER ->
                  /\ OpenRecurse
                  /\ UNCHANGED <<new_status, cb>>
    /\ UNCHANGED <<sync, callback, timeout, stop_thread, newline_available,
                   write_allowed, newline, timers, mon, tx, args, frame>>

\* _read_line raises EvseTimeoutError within echo
OpenReadTimeout ==
    /\ fg.pc = "echo_resp"
    /\ rx = <<>>
    /\ hist' = FgReadsPort
    /\ EchoRaises("EvseTimeoutError")
    /\ UNCHANGED <<sync, callback, new_status, timeout, stop_thread,
                   newline_available, write_allowed, newline, timers, mon, rx,
                   tx, cb, args, frame>>

\* the constructor, then the engine without a monitor
NextOpen ==
    \/ OpenWrite
    \/ OpenReadLine
    \/ OpenReadTimeout
    \/ NextSync

SpecOpen == InitOpen /\ [][NextOpen]_vars

(***************************************************************************)
(* The monitor with every line the device can send: run_sync, stop_sync    *)
(* and get_status_change are the calls made; no frame is written, so the   *)
(* write gate stays set and no Timer is started.                           *)
(***************************************************************************)
NextMonitor ==
    \/ RunSync
    \/ StopSync
    \/ FgJoin
    \/ CallGetStatusChange
    \/ FgReadLine
    \/ FgReadTimeout
    \/ Monitor
    \/ DeviceSync

SpecMonitor == Init /\ [][NextMonitor]_vars

(***************************************************************************)
(* Properties.                                                             *)
(***************************************************************************)
\* the foreground reads line l from the port in this step, for a request
ReadsForRequest(l) ==
    /\ ~sync
    /\ fg.pc = "resp"
    /\ fg.op = "request"
    /\ rx # <<>>
    /\ Head(rx) = l
    /\ rx' = Tail(rx)

\* C1: without the monitor, a request that reads the status line `$ST 02`
\* before the reply `$OK 0` calls the status callback with the label of
\* state 2 and records that label as the latest status when it reads the
\* status line, and goes on awaiting the reply, however many status lines
\* it has read before; the line of a returned reply is never a status
\* line, and the reply it returns on reading `$OK 0` is the success of that
\* line with its data.
C1_StatusBeforeReply ==
    /\ [][\A l \in DeviceLines :
            ReadsForRequest(l) =>
              /\ l = Line("$ST", <<"02">>) =>
                   /\ new_status' = "connected"
                   /\ callback => cb' = "connected"
                   /\ ret' = ret
                   /\ fg'.pc = "resp"
              /\ l = Line("$OK", <<"0">>) =>
                   /\ ret'.k = "reply"
                   /\ ret'.ok
                   /\ ret'.data = <<"0">>
                   /\ ret'.nst = fg.nst
                   /\ UNCHANGED <<new_status, cb>>]_vars
    /\ [](ret.k = "reply" => ret.line.tok \in {"$OK", "$NK"})

\* C1, reached: a request has returned the reply `$OK 0` after two status
\* lines, the last of them `$ST 02`, with the callback called for it
C1_Reached ==
    /\ ~sync
    /\ callback
    /\ ret.k = "reply"
    /\ ret.line = Line("$OK", <<"0">>)
    /\ ret.nst = 2
    /\ new_status = "connected"
    /\ cb = "connected"

\* the bytes between the leading '$' and the '^' of a frame, as the
\* arguments give them: the mnemonic, then each argument after one space
RECURSIVE SpacedArgs(_)
SpacedArgs(as) ==
    IF as = <<>> THEN <<>> ELSE <<32>> \o Head(as) \o SpacedArgs(Tail(as))

\* bit k of n
Bit(n, k) == (n \div (2 ^ k)) % 2

\* the number of bytes of s whose bit k is set
RECURSIVE Ones(_, _)
Ones(s, k) == IF s = <<>> THEN 0 ELSE Bit(Head(s), k) + Ones(Tail(s), k)

\* the value of an uppercase hexadecimal digit
HexValue(c) ==
    CASE c \in 48..57 -> c - 48
      [] c \in 65..70 -> c - 55
      [] OTHER -> -1

\* C2: the frame of a request is '$', the mnemonic, each argument after a
\* single space, '^', two uppercase hexadecimal digits and a carriage
\* return; the two digits are the XOR of all the bytes before the '^', the
\* leading '$' included, zero-padded; the request GE is the frame `$GE^26\r`.
C2_FrameFormat ==
    frame # <<>> =>
      LET body == <<36>> \o Head(args) \o SpacedArgs(Tail(args))
          n == Len(body)
      IN  /\ Len(frame) = n + 4
          /\ SubSeq(frame, 1, n) = body
          /\ frame[n + 1] = 94
          /\ frame[n + 4] = 13
          /\ HexValue(frame[n + 2]) >= 0
          /\ HexValue(frame[n + 3]) >= 0
          /\ \A k \in 0..7 :
               Bit(16 * HexValue(frame[n + 2]) + HexValue(frame[n + 3]), k)
                 = Ones(body, k) % 2
          /\ args = <<(<<71, 69>>)>> => frame = <<36, 71, 69, 94, 50, 54, 13>>

\* C2, reached: the frame of `FB 16` is encoded, its checksum 07 zero-padded
C2_Reached ==
    /\ args = <<(<<70, 66>>), <<49, 54>>>>
    /\ frame = <<36, 70, 66, 32, 49, 54, 94, 48, 55, 13>>

\* a line with none of the prefixes $OK, $NK, $ST, ST
Unrecognised(l) == l.tok \notin {"$OK", "$NK", "$ST", "ST"}

\* C10: without the monitor, a request that gives up re-reading on an
\* unrecognised line ends with the error MalformedReply.
C10_MalformedReply ==
    [][\A l \in DeviceLines :
         (ReadsForRequest(l) /\ Unrecognised(l) /\ fg'.pc = "idle")
           => ret' = Raised("MalformedReply")]_vars

\* the foreground writes its frame in this step
WritesFrame == fg.pc = "write" /\ fg'.pc # "write"

C4_GateClearedBeforeFrame ==
    (sync /\ fg.op = "reset" /\ fg.pc = "reinit" /\ tx = "FR") => ~write_allowed

\* C5: with the monitor running, the write gate closed by a reset is set
\* again only when the monitor has read a status line the device sent after
\* the reset frame of that reset.
C5_GateSetAfterRebootStatus ==
    [][(sync /\ ~write_allowed /\ write_allowed') => hist.seen # "no"]_vars

\* C6: with the monitor running, once the monitor has read the status line
\* the device sent after the reset frame, the gate closed by that reset is
\* about to be set: a grace timer is pending as long as the gate is closed.
C6_GateReopeningPending ==
    (sync /\ MonAlive /\ ~write_allowed /\ hist.seen # "no") => timers > 0

\* C7: with the monitor running, the line a request takes from the mailbox
\* as its reply is one the monitor read from the port after the frame of
\* the request was written.
C7_ReplyReceivedAfterFrame ==
    (sync /\ fg.op = "request" /\ fg.pc = "clear") => ~fg.resp.stale

C9_ExclusiveTransport ==
    /\ ~hist.fgReadWhileMon
    /\ ret.k = "reply" => (ret.via = "mailbox" <=> sync)
    /\ (fg.pc \in {"resp", "reinit"} /\ ~sync) => ~MonAlive

\* C9, reached: after stop_sync has joined the monitor, a request has read
\* its reply from the port
C9_Reached ==
    /\ mon.pc = "exited"
    /\ ~sync
    /\ ret.k = "reply"
    /\ ret.via = "port"

\* the foreground reads line l from the port in this step (_get_response
\* or _reinitialize, without the monitor)
FgReads(l) ==
    /\ ~sync
    /\ fg.pc \in {"resp", "reinit"}
    /\ rx # <<>>
    /\ Head(rx) = l
    /\ rx' = Tail(rx)

\* the monitor reads line l from the port in this step
MonReads(l) ==
    /\ mon.pc = "read"
    /\ rx # <<>>
    /\ Head(rx) = l
    /\ rx' = Tail(rx)

\* the label of the two-digit code of a line, by the table of the device
LabelOfCode(l) ==
    CASE l.args = <<"02">> -> "connected"
      [] l.args = <<"03">> -> "charging"
      [] l.args = <<"ff">> -> "disabled"
      [] OTHER -> "None"

\* C11: in every reading path a line whose first token is `$ST` or bare
\* `ST` (its code in the table) is a status event: the foreground that
\* reads it in _get_response or _reinitialize records its label as the
\* latest status, calls the callback when there is one, and raises nothing
\* and returns no reply for it; the monitor that reads it calls the
\* callback and goes on.
C11_StatusInEveryPath ==
    [][\A l \in StatusLines :
         LabelOfCode(l) # "None" =>
           /\ (FgReads(l) /\ fg.depth < RecursionLimit) =>
                /\ new_status' = LabelOfCode(l)
                /\ callback => cb' = LabelOfCode(l)
                /\ ret'.k \notin {"raise", "reply"}
           /\ MonReads(l) =>
                /\ cb' = LabelOfCode(l)
                /\ mon'.pc = "loop"]_vars

\* C12: with and without the monitor, the reply a request returns is ok
\* exactly when the first token of its line is `$OK` (not ok for `$NK`),
\* with the remaining tokens in order as its data; the reply `$OK 3` is
\* (true, ['3']), which status() maps to 'charging'.
C12_ReplyDecoded ==
    /\ ret.k = "reply" =>
         /\ ret.ok <=> ret.line.tok = "$OK"
         /\ ret.line.tok = "$NK" => ~ret.ok
         /\ ret.data = ret.line.args
    /\ Reply(Line("$OK", <<"3">>)) = [ok |-> TRUE, data |-> <<"3">>]
    /\ status(Reply(Line("$OK", <<"3">>))) = [label |-> "charging"]
    /\ Reply(Line("$NK", <<"1", "2">>)) = [ok |-> FALSE, data |-> <<"1", "2">>]

\* C12, reached: with the monitor, a request has returned the reply of the
\* line `$OK 0` taken from the mailbox
C12_Reached ==
    /\ sync
    /\ ret.k = "reply"
    /\ ret.via = "mailbox"
    /\ ret.line = Line("$OK", <<"0">>)
    /\ ret.ok
    /\ ret.data = <<"0">>

\* C13: the code of a status line is mapped through the fixed table (3 is
\* 'charging', 255 'disabled'; thirteen codes in all); the label a status
\* line produces, in the latest status or in the callback, is the table's;
\* a status line whose code is not in the table is rejected with an error
\* (the foreground call raises, the monitor thread ends with the
\* exception) and neither calls the callback nor changes the latest status.
C13_StatusTable ==
    /\ [](/\ DOMAIN states = (0..10) \cup {254, 255}
          /\ states[3] = "charging"
          /\ states[255] = "disabled")
    /\ [][\A l \in StatusLines :
            /\ (LabelOfCode(l) # "None" /\ (FgReads(l) \/ MonReads(l))) =>
                 /\ new_status' \in {new_status, LabelOfCode(l)}
                 /\ cb' \in {cb, LabelOfCode(l)}
            /\ (LabelOfCode(l) = "None" /\ FgReads(l)) =>
                 /\ ret'.k = "raise"
                 /\ UNCHANGED <<new_status, cb>>
            /\ (LabelOfCode(l) = "None" /\ MonReads(l)) =>
                 /\ mon'.pc = "dead"
                 /\ UNCHANGED <<new_status, cb>>]_vars

\* C14: a monitor thread is started only by run_sync with a callback
\* registered and no monitor mode on, and then no monitor thread is alive;
\* run_sync without a callback, or with the monitor mode on, starts nothing
\* and leaves the mode, the thread, the mailbox, the gate, the stop flag
\* and the timers as they are; without a callback the mode is never on, and
\* a monitor thread is alive only while the mode is on.
C14_OneMonitor ==
    /\ [](~callback => (~sync /\ mon.pc = "none"))
    /\ [](MonAlive => sync)
    /\ [][RunSync =>
            IF callback /\ ~sync
            THEN /\ ~MonAlive
                 /\ sync'
                 /\ mon' = [MonIdle EXCEPT !.pc = "loop"]
            ELSE UNCHANGED <<sync, mon, newline, newline_available,
                             write_allowed, stop_thread, timers>>]_vars

\* C14, reached: run_sync has returned without starting a thread while the
\* monitor was running, the mailbox flag still set and the monitor waiting
C14_Reached ==
    /\ ret = ReturnedFromRunSync(FALSE)
    /\ callback
    /\ sync
    /\ mon.pc = "wait"
    /\ newline_available

\* C15: get_status_change called with the monitor mode on raises EvseError
\* at once and changes nothing: no line is read from the port, the timeout,
\* the latest status, the mailbox and its flag are as before, and no drain
\* is ever in progress while the mode is on.
C15_DrainRefused ==
    /\ [][(sync /\ CallGetStatusChange) =>
            /\ ret' = Raised("EvseError")
            /\ fg' = FgIdle
            /\ UNCHANGED <<sync, timeout, new_status, newline,
                           newline_available, write_allowed, stop_thread,
                           timers, mon, rx, tx, cb, hist>>]_vars
    /\ [](sync => fg.op # "drain")

\* C15, reached: with the monitor running and a latest status recorded,
\* get_status_change has raised EvseError; the status and the timeout of the
\* monitor mode are still there
C15_Reached ==
    /\ sync
    /\ MonAlive
    /\ ret = Raised("EvseError")
    /\ timeout = "SYNC"
    /\ new_status = "connected"

\* C16: without the monitor, get_status_change sets the zero poll timeout,
\* reads until no line remains, and returns the label of the last status
\* line read since its previous return (None when there was none), with
\* the latest status cleared and the standard timeout set again; with a
\* callback registered, the callback's last call was for that status line.
C16_DrainReturnsLast ==
    [][/\ (~sync /\ CallGetStatusChange) => timeout' = "STATUS"
       /\ (~sync /\ fg.op = "drain" /\ fg'.pc = "idle" /\ ret'.k = "status") =>
            /\ rx = <<>>
            /\ ret'.v = hist.last
            /\ (callback /\ hist.last # "None") => cb = hist.last
            /\ new_status' = "None"
            /\ timeout' = "STANDARD"]_vars

\* C17: with or without the monitor, the frame written next after a reset
\* frame is the disable-echo handshake `$SE 0`, not the frame of a request.
C17_HandshakeAfterReset ==
    [][(tx = "FR" /\ tx' # tx) => tx' = "SE"]_vars

\* C18: without the monitor, a reset that ends without having read a
\* status line after its reset frame (no line came before the timeout, or
\* the line that came is not a status line) raises EvseTimeoutError, and
\* neither changes the latest status nor calls the callback.
C18_ResetTimeout ==
    [][(/\ ~sync
        /\ fg.op = "reset"
        /\ fg.pc = "reinit"
        /\ fg'.pc = "idle"
        /\ rx = <<>> \/ ~IsStatusLine(Head(rx))) =>
          /\ ret' = Raised("EvseTimeoutError")
          /\ UNCHANGED <<new_status, cb>>]_vars

\* C19: once stop_sync has set the stop flag, the monitor ends within the
\* loop iteration in progress: it does not sleep more than one further
\* sync-timeout period, also when it is waiting to publish a line into a
\* full mailbox.
C19_StopsWithinOneIteration == hist.waits <= 1

\* C20: no call writes its frame a second time: a request, a reset and the
\* handshake of the constructor write at most one frame per call, whatever
\* the reply or the timeout.
C20_NoRetransmit == fg.writes <= 1

\* C21: from run_sync until the stop flag is set the monitor thread is
\* alive, whatever lines it has read.
C21_MonitorKeepsRunning == (sync /\ ~stop_thread) => MonAlive

\* C22: with the monitor running, for every status line the monitor reads
\* (its code in the table) it calls the callback with the label and records
\* the label as the latest status; the line is not put in the mailbox.
C22_MonitorUpdatesStatus ==
    [][\A l \in StatusLines :
         (LabelOfCode(l) # "None" /\ MonReads([l EXCEPT !.fresh = Head(rx).fresh])) =>
           /\ cb' = LabelOfCode(l)
           /\ new_status' = LabelOfCode(l)
           /\ UNCHANGED <<newline, newline_available>>
           /\ mon'.entry = mon.entry]_vars

\* C23: the monitor that holds a line to publish sleeps one sync-timeout
\* period at a time, and only while the mailbox flag is set and the age it
\* has counted is within NEWLINE_MAX_AGE; it stores its line only when it
\* sees the flag clear or when the unread line has stayed beyond
\* NEWLINE_MAX_AGE; the age never passes NEWLINE_MAX_AGE by more than one
\* period (eleven sleeps at most), so the wait always ends.
C23_BoundedWait ==
    /\ [](mon.pc = "wait" =>
            /\ mon.age <= NEWLINE_MAX_AGE + SYNC_SERIAL_TIMEOUT
            /\ mon.age \div SYNC_SERIAL_TIMEOUT <= 11)
    /\ [][/\ (mon.pc = "wait" /\ mon'.pc = "set") =>
               /\ ~newline_available \/ mon.age > NEWLINE_MAX_AGE
               /\ newline' = mon.entry
          /\ (mon.pc = "wait" /\ mon'.pc = "wait" /\ mon'.age # mon.age) =>
               /\ newline_available
               /\ mon.age <= NEWLINE_MAX_AGE
               /\ mon'.age = mon.age + SYNC_SERIAL_TIMEOUT
               /\ newline' = newline
          /\ (mon.pc = "wait" /\ ~newline_available /\ mon'.pc # "wait")
               => mon'.pc = "set"]_vars

\* C23, reached: the monitor has stored its line over an unread one, after
\* the full wait
C23_Reached ==
    /\ mon.pc = "set"
    /\ hist.overwrote
    /\ newline_available
    /\ newline.line = hist.pub

\* C24: the take of the foreground is atomic with respect to the monitor:
\* when the foreground clears the mailbox flag the slot still holds the
\* line it has just read, so that the clear discards no line the monitor
\* has stored since.
C24_AtomicTake ==
    [][(fg.pc = "clear" /\ fg'.pc = "idle") => newline = fg.resp]_vars

\* C25: whenever no call is in progress the read timeout of the port is
\* the sync-loop timeout if the monitor mode is on and the standard timeout
\* otherwise, however the last call ended.
C25_TimeoutRegime ==
    fg.pc = "idle" => timeout = IF sync THEN "SYNC" ELSE "STANDARD"

====
